---------------------------- MODULE Spec2Model ----------------------------
(* Model of the GlobalWineScore client core (src/src/api.js): parameter    *)
(* composition, the derived query operations, the authenticated GET and    *)
(* the classification of its failures.                                     *)
(*                                                                         *)
(* JavaScript values are records [t, v]: t is the typeof tag, v the value  *)
(* written as a sequence of text atoms (a string is the sequence of its    *)
(* pieces, so that concatenation is \o and toLowerCase works per letter).  *)
(* A JavaScript object is a function from the keys it owns to values.      *)
EXTENDS Naturals, Sequences, FiniteSets, TLC

\* Largest number of own keys of a filter / options object a caller passes.
MaxKeys == 2

VARIABLES
  apiToken,   \* the value the credential store holds under 'apiToken'
  pc,         \* "idle" | "waiting" (GET in flight) | "done" (settled) | "exited"
  op,         \* the exported function the caller invoked
  arg,        \* its leading argument (vintage, color, wineId, lwin), if any
  options,    \* the filters / options object the caller passed
  filters,    \* the object handed to getLatestScores / getHistoricalScores
  req,        \* the request given to axios.get: url, headers, params
  calls,      \* number of axios.get calls made by the current query
  outcome,    \* what the transport delivered for the GET
  result,     \* how the query settled: returned data or thrown error
  cmd,        \* the command the process runs, if the caller is the CLI
  exitCode,   \* "running", or "0" / "1" once the process has ended
  stderr,     \* the messages printError has written
  stdout,     \* what the command has printed as its results
  prev        \* history: an earlier, completed query (inputs and outcome)

cli == <<cmd, exitCode, stderr, stdout>>

vars == <<apiToken, pc, op, arg, options, filters, req, calls, outcome, result,
          cmd, exitCode, stderr, stdout, prev>>

(***************************************************************************)
(* JavaScript values                                                       *)
(***************************************************************************)
Undefined == [t |-> "undefined", v |-> <<>>]
Str(s) == [t |-> "string", v |-> s]
Num(n) == [t |-> "number", v |-> <<n>>]
Bool(b) == [t |-> "boolean", v |-> <<b>>]

\* ToBoolean: undefined, '', 0, NaN and false are falsy.
Truthy(x) ==
  CASE x.t = "undefined" -> FALSE
    [] x.t = "string"    -> x.v # <<>>
    [] x.t = "number"    -> x.v \notin {<<"0">>, <<"NaN">>}
    [] x.t = "boolean"   -> x.v = <<"true">>

\* a || b
Or(a, b) == IF Truthy(a) THEN a ELSE b

\* obj.k : the own value, or undefined when obj has no such key
Get(obj, k) == IF k \in DOMAIN obj THEN obj[k] ELSE Undefined

\* { ...a, ...b } : keys of b win, also when their value is undefined
Spread(a, b) ==
  [k \in (DOMAIN a) \cup (DOMAIN b) |-> IF k \in DOMAIN b THEN b[k] ELSE a[k]]

EmptyObject == [k \in {} |-> Undefined]

UpperCase == {"R", "E", "D"}
LowerChar(c) ==
  CASE c = "R" -> "r"
    [] c = "E" -> "e"
    [] c = "D" -> "d"
    [] OTHER   -> c

\* String.prototype.toLowerCase
toLowerCase(s) == [s EXCEPT !.v = [i \in DOMAIN s.v |-> LowerChar(s.v[i])]]

HasUpperCase(s) == \E i \in DOMAIN s.v : s.v[i] \in UpperCase

(***************************************************************************)
(* Parameter composition                                                   *)
(***************************************************************************)
Fields == {"wine_id", "vintage", "color", "is_primeurs", "lwin", "lwin_11",
           "limit", "offset", "ordering"}

\* The test guarding `params.k = filters.k` for field k.
Transmits(f, k) ==
  IF k = "is_primeurs" THEN Get(f, k) # Undefined ELSE Truthy(Get(f, k))

\* The params object built by getLatestScores and by getHistoricalScores.
BuildParams(f) == [k \in {x \in Fields : Transmits(f, x)} |-> f[k]]


\* getLatestScores(filters): the params it passes to request()
getLatestScores(f) == BuildParams(f)

\* getHistoricalScores(filters): the params it passes to request()
getHistoricalScores(f) == BuildParams(f)

(***************************************************************************)
(* Derived operations: the filters object each hands to getLatestScores    *)
(***************************************************************************)
DescScore == Str(<<"-score">>)

searchWines(query, o) ==
  Spread([limit    |-> Or(Get(o, "limit"), Num("20")),
          ordering |-> Or(Get(o, "ordering"), DescScore)], o)

getScoresByVintage(vintage, o) ==
  Spread([vintage  |-> vintage,
          limit    |-> Or(Get(o, "limit"), Num("50")),
          ordering |-> Or(Get(o, "ordering"), DescScore)], o)

\* Variant of getScoresByColor that forgets to lower-case its argument.
getScoresByColorRaw(color, o) ==
  Spread([color    |-> color,
          limit    |-> Or(Get(o, "limit"), Num("50")),
          ordering |-> Or(Get(o, "ordering"), DescScore)], o)

getScoresByColor(color, o) ==
  Spread([color    |-> toLowerCase(color),
          limit    |-> Or(Get(o, "limit"), Num("50")),
          ordering |-> Or(Get(o, "ordering"), DescScore)], o)

\* Variant of getScoresByWineId that imposes the defaults of by-vintage.
getScoresByWineIdDefaults(wineId, o) ==
  Spread([wine_id  |-> wineId,
          limit    |-> Or(Get(o, "limit"), Num("50")),
          ordering |-> Or(Get(o, "ordering"), DescScore)], o)

getScoresByWineId(wineId, o) == Spread([wine_id |-> wineId], o)

getScoresByLwin(lwin, o) == Spread([lwin |-> lwin], o)

getTopRated(o) ==
  Spread([limit    |-> Or(Get(o, "limit"), Num("20")),
          ordering |-> DescScore], o)

(***************************************************************************)
(* Credentials and headers                                                 *)
(***************************************************************************)
\* getConfig('apiToken'): a read of the credential store
getConfig == apiToken

TokenNotConfigured ==
  <<"API token not configured. Run: globalwinescore config set --api-token YOUR_TOKEN">>

\* getHeaders throws when the token is falsy (absent or empty) ...
getHeadersThrows(token) == ~Truthy(token)

\* ... and otherwise returns the two headers.
getHeaders(token) ==
  [Authorization |-> <<"Token ">> \o token.v, Accept |-> <<"application/json">>]

(***************************************************************************)
(* Transport: what axios.get settles with                                  *)
(***************************************************************************)
BASE_URL == <<"https://api.globalwinescore.com">>
\* Variant of the latest path that names the historical resource.
LatestEndpointHistorical == <<"/globalwinescores/">>

LatestEndpoint == <<"/globalwinescores/latest/">>
HistoricalEndpoint == <<"/globalwinescores/">>

NoData == [type |-> "none", fields |-> EmptyObject]
NoRequest == [url |-> <<>>, headers |-> EmptyObject, params |-> EmptyObject]
NoOutcome == [kind |-> "none", status |-> 0, data |-> NoData, message |-> <<>>]
NoResult ==
  [kind |-> "none", category |-> "none", message |-> <<>>, data |-> NoData]

\* A thrown Error / AxiosError: message, and the response when there is one.
JsError(hasResponse, status, data, message) ==
  [hasResponse |-> hasResponse, status |-> status, data |-> data,
   message |-> message]

\* axios resolves for a 2xx status (its default validateStatus) ...
AxiosResolves(o) == o.kind = "response" /\ o.status >= 200 /\ o.status < 300

StatusText(n) ==
  CASE n = 200 -> "200" [] n = 400 -> "400" [] n = 401 -> "401"
    [] n = 403 -> "403" [] n = 429 -> "429" [] n = 500 -> "500"

\* ... and rejects otherwise, with an error that carries the response when
\* there is one (its message then names the status) or else the cause.
AxiosError(o) ==
  IF o.kind = "response"
  THEN JsError(TRUE, o.status, o.data,
               <<"Request failed with status code ", StatusText(o.status)>>)
  ELSE JsError(FALSE, 0, NoData, o.message)

(***************************************************************************)
(* request(): the catch block                                              *)
(***************************************************************************)
\* Rated wines as the remote service may send them: every field optional.
WineA ==
  [wine_name   |-> Str(<<"Chateau Margaux">>),
   vintage     |-> Str(<<"2015">>),
   score       |-> Num("98"),
   color       |-> Str(<<"r", "e", "d">>),
   is_primeurs |-> Bool("false")]
WineB == [wine |-> Str(<<"Petrus">>), score |-> Num("0")]

\* formatWineResult(wine) of the command-line layer: six columns, with
\* placeholders for what is missing or falsy.
formatWineResult(wine) ==
  [wine_name   |-> Or(Get(wine, "wine_name"), Or(Get(wine, "wine"), Str(<<"N/A">>))),
   vintage     |-> Or(Get(wine, "vintage"), Str(<<"NV">>)),
   score       |-> Or(Get(wine, "score"), Str(<<"N/A">>)),
   confidence  |-> Or(Get(wine, "confidence_index"), Str(<<"N/A">>)),
   appellation |-> Or(Get(wine, "appellation"), Str(<<"N/A">>)),
   color       |-> Or(Get(wine, "color"), Str(<<"N/A">>))]

Thrown(category, message) ==
  [kind |-> "thrown", category |-> category, message |-> message,
   data |-> NoData]

\* Variant of the return that formats the wines of a page before handing
\* the page back.
ReturnedFormatted(data) ==
  [kind |-> "returned", category |-> "none", message |-> <<>>,
   data |-> IF data.type = "object" /\ "results" \in DOMAIN data.fields
            THEN [data EXCEPT !.fields["results"].v =
                    [i \in DOMAIN @ |-> formatWineResult(@[i])]]
            ELSE data]

\* return response.data
Returned(data) ==
  [kind |-> "returned", category |-> "none", message |-> <<>>, data |-> data]

\* error.response?.status === n
StatusIs(error, n) == error.hasResponse /\ error.status = n

\* error.response?.data?.detail
Detail(error) ==
  IF error.hasResponse THEN Get(error.data.fields, "detail") ELSE Undefined

\* Variant of the catch block that looks at the body's detail before the
\* status codes.
requestCatchDetailFirst(error) ==
  IF Truthy(Detail(error)) THEN
    Thrown("RemoteRejected", <<"API Error: ">> \o Detail(error).v)
  ELSE IF StatusIs(error, 401) THEN
    Thrown("Unauthenticated", <<"Authentication failed. Check your API token.">>)
  ELSE IF StatusIs(error, 429) THEN
    Thrown("RateLimited", <<"Rate limit exceeded. Maximum 10 requests per minute.">>)
  ELSE IF StatusIs(error, 403) THEN
    Thrown("PlanRestricted",
           <<"Access forbidden. This endpoint may require a business plan.">>)
  ELSE
    Thrown("TransportFailure", <<"Request failed: ">> \o error.message)

\* Variant of the catch block that reports the transport's message in place
\* of the body's detail.
requestCatchWrongText(error) ==
  IF StatusIs(error, 401) THEN
    Thrown("Unauthenticated", <<"Authentication failed. Check your API token.">>)
  ELSE IF StatusIs(error, 429) THEN
    Thrown("RateLimited", <<"Rate limit exceeded. Maximum 10 requests per minute.">>)
  ELSE IF StatusIs(error, 403) THEN
    Thrown("PlanRestricted",
           <<"Access forbidden. This endpoint may require a business plan.">>)
  ELSE IF Truthy(Detail(error)) THEN
    Thrown("RemoteRejected", <<"API Error: ">> \o error.message)
  ELSE
    Thrown("TransportFailure", <<"Request failed: ">> \o error.message)

\* Variant of the catch block without its last throw: an unrecognised
\* failure falls off the end and request() returns undefined.
requestCatchSwallow(error) ==
  IF StatusIs(error, 401) THEN
    Thrown("Unauthenticated", <<"Authentication failed. Check your API token.">>)
  ELSE IF StatusIs(error, 429) THEN
    Thrown("RateLimited", <<"Rate limit exceeded. Maximum 10 requests per minute.">>)
  ELSE IF StatusIs(error, 403) THEN
    Thrown("PlanRestricted",
           <<"Access forbidden. This endpoint may require a business plan.">>)
  ELSE IF Truthy(Detail(error)) THEN
    Thrown("RemoteRejected", <<"API Error: ">> \o Detail(error).v)
  ELSE
    Returned(NoData)

\* The five throw statements, in source order; each is one error category.
requestCatch(error) ==
  IF StatusIs(error, 401) THEN
    Thrown("Unauthenticated", <<"Authentication failed. Check your API token.">>)
  ELSE IF StatusIs(error, 429) THEN
    Thrown("RateLimited", <<"Rate limit exceeded. Maximum 10 requests per minute.">>)
  ELSE IF StatusIs(error, 403) THEN
    Thrown("PlanRestricted",
           <<"Access forbidden. This endpoint may require a business plan.">>)
  ELSE IF Truthy(Detail(error)) THEN
    Thrown("RemoteRejected", <<"API Error: ">> \o Detail(error).v)
  ELSE
    Thrown("TransportFailure", <<"Request failed: ">> \o error.message)

\* Variant of the catch block that issues the GET again after a 429.
RetriesOn429(error) == StatusIs(error, 429)

\* No path of the catch block issues the GET again.
Retries(error) == FALSE

(***************************************************************************)
(* Inputs: what callers pass and what the remote service answers           *)
(***************************************************************************)
\* Values a caller may put under each filter field (undefined included:
\* an own key whose value is undefined).
ValuesOf(k) ==
  CASE k = "wine_id"     -> {Str(<<>>), Str(<<"113434">>)}
    [] k = "vintage"     -> {Undefined, Str(<<"2015">>)}
    [] k = "color"       -> {Str(<<>>), Str(<<"W", "h", "i", "t", "e">>),
                             Str(<<"R", "E", "D">>)}
    [] k = "is_primeurs" -> {Undefined, Bool("true"), Bool("false")}
    [] k = "lwin"        -> {Str(<<"1014033">>)}
    [] k = "lwin_11"     -> {Str(<<"10140332015">>)}
    [] k = "limit"       -> {Undefined, Num("0"), Num("10")}
    [] k = "offset"      -> {Num("0"), Num("40")}
    [] k = "ordering"    -> {Undefined, Str(<<>>), Str(<<"date">>)}

AllValues == UNION {ValuesOf(k) : k \in Fields}

\* The filter / options objects: at most MaxKeys own keys.
Objects ==
  UNION {{f \in [ks -> AllValues] : \A k \in ks : f[k] \in ValuesOf(k)} :
         ks \in {s \in SUBSET Fields : Cardinality(s) <= MaxKeys}}

ColorArgs == {Str(<<>>), Str(<<"r", "e", "d">>), Str(<<"R", "E", "D">>),
              Str(<<"R", "e", "d">>)}
VintageArgs == {Str(<<"2015">>), Str(<<"NV">>)}
WineIdArgs == {Str(<<"113434">>)}
LwinArgs == {Str(<<"1014033">>)}
QueryArgs == {Str(<<"margaux">>)}

\* What the credential store may hold: nothing, '', or a token.
Tokens == {Undefined, Str(<<>>), Str(<<"s3cr3t">>)}

\* Response bodies as axios hands them over in response.data.
ObjectBody(fields) == [type |-> "object", fields |-> fields]
PageBody ==
  ObjectBody([count    |-> Num("2"),
              next     |-> Undefined,
              previous |-> Undefined,
              results  |-> [t |-> "array", v |-> <<WineB, WineA>>]])
DetailBody == ObjectBody([detail |-> Str(<<"invalid vintage">>)])
EmptyDetailBody == ObjectBody([detail |-> Str(<<>>)])
OtherBody == ObjectBody([error |-> Str(<<"oops">>)])
TextBody == [type |-> "text", fields |-> EmptyObject]
EmptyBody == [type |-> "empty", fields |-> EmptyObject]

Bodies == {PageBody, DetailBody, EmptyDetailBody, OtherBody, TextBody, EmptyBody}

\* A body that is the {count, next, previous, results} envelope.
IsScorePage(b) ==
  b.type = "object" /\ {"count", "results"} \subseteq DOMAIN b.fields

Statuses == {200, 400, 401, 403, 429, 500}

Response(status, body) ==
  [kind |-> "response", status |-> status, data |-> body, message |-> <<>>]

NetworkError(cause) ==
  [kind |-> "error", status |-> 0, data |-> NoData, message |-> <<cause>>]

Outcomes ==
  {Response(n, b) : n \in Statuses, b \in Bodies}
    \cup {NetworkError("connect ECONNREFUSED"),
          NetworkError("timeout of 1000ms exceeded")}

NoCmd == [name |-> "none", json |-> FALSE]
NoOutput == [kind |-> "none", data |-> NoData, rows |-> <<>>]
NoPrev ==
  [set |-> FALSE, op |-> "none", arg |-> Undefined, options |-> EmptyObject,
   token |-> Undefined, req |-> NoRequest, calls |-> 0, outcome |-> NoOutcome,
   result |-> NoResult]

(***************************************************************************)
(* State machine                                                           *)
(***************************************************************************)
Init ==
  /\ apiToken \in Tokens
  /\ pc = "idle"
  /\ op = "none"
  /\ arg = Undefined
  /\ options = EmptyObject
  /\ filters = EmptyObject
  /\ req = NoRequest
  /\ calls = 0
  /\ outcome = NoOutcome
  /\ result = NoResult
  /\ cmd = NoCmd
  /\ exitCode = "running"
  /\ stderr = <<>>
  /\ stdout = NoOutput
  /\ prev = NoPrev

\* Variant of request() that keeps the last page it returned and serves it
\* again instead of issuing the GET.
requestCached(endpoint, params) ==
  IF prev.set /\ prev.result.kind = "returned"
  THEN /\ result' = prev.result
       /\ pc' = "done"
       /\ UNCHANGED <<req, calls>>
  ELSE IF getHeadersThrows(getConfig)
  THEN /\ result' = requestCatch(JsError(FALSE, 0, NoData, TokenNotConfigured))
       /\ pc' = "done"
       /\ UNCHANGED <<req, calls>>
  ELSE /\ req' = [url     |-> BASE_URL \o endpoint,
                  headers |-> getHeaders(getConfig),
                  params  |-> params]
       /\ calls' = calls + 1
       /\ pc' = "waiting"
       /\ UNCHANGED result

\* request(endpoint, params) up to its await: getHeaders() is evaluated
\* inside the try, before axios.get is entered; its throw is caught by the
\* same catch block as a rejected GET.
request(endpoint, params) ==
  IF getHeadersThrows(getConfig)
  THEN /\ result' = requestCatch(JsError(FALSE, 0, NoData, TokenNotConfigured))
       /\ pc' = "done"
       /\ UNCHANGED <<req, calls>>
  ELSE /\ req' = [url     |-> BASE_URL \o endpoint,
                  headers |-> getHeaders(getConfig),
                  params  |-> params]
       /\ calls' = calls + 1
       /\ pc' = "waiting"
       /\ UNCHANGED result

\* The caller invokes exported function name with (a, o); f is the filters
\* object that reaches the params builder.
Invoke(name, a, o, f, endpoint, params) ==
  /\ op' = name
  /\ arg' = a
  /\ options' = o
  /\ filters' = f
  /\ request(endpoint, params)
  /\ UNCHANGED <<apiToken, outcome, prev>>

CallGetLatestScoresOf(S) ==
  /\ pc = "idle"
  /\ \E f \in S :
      Invoke("getLatestScores", Undefined, f, f, LatestEndpoint, getLatestScores(f))
  /\ UNCHANGED cli

CallGetLatestScores == CallGetLatestScoresOf(Objects)

CallGetHistoricalScoresOf(S) ==
  /\ pc = "idle"
  /\ \E f \in S :
      Invoke("getHistoricalScores", Undefined, f, f, HistoricalEndpoint,
             getHistoricalScores(f))
  /\ UNCHANGED cli

CallGetHistoricalScores == CallGetHistoricalScoresOf(Objects)

\* The derived operations all end in getLatestScores(<their filters>).
Derived(name, a, o, f) ==
  Invoke(name, a, o, f, LatestEndpoint, getLatestScores(f))

CallSearchWinesOf(S) ==
  /\ pc = "idle"
  /\ \E q \in QueryArgs, o \in S :
      Derived("searchWines", q, o, searchWines(q, o))
  /\ UNCHANGED cli

CallSearchWines == CallSearchWinesOf(Objects)

CallGetScoresByVintageOf(S) ==
  /\ pc = "idle"
  /\ \E y \in VintageArgs, o \in S :
      Derived("getScoresByVintage", y, o, getScoresByVintage(y, o))
  /\ UNCHANGED cli

CallGetScoresByVintage == CallGetScoresByVintageOf(Objects)

CallGetScoresByColorOf(S) ==
  /\ pc = "idle"
  /\ \E c \in ColorArgs, o \in S :
      Derived("getScoresByColor", c, o, getScoresByColor(c, o))
  /\ UNCHANGED cli

CallGetScoresByColor == CallGetScoresByColorOf(Objects)

CallGetScoresByWineIdOf(S) ==
  /\ pc = "idle"
  /\ \E w \in WineIdArgs, o \in S :
      Derived("getScoresByWineId", w, o, getScoresByWineId(w, o))
  /\ UNCHANGED cli

CallGetScoresByWineId == CallGetScoresByWineIdOf(Objects)

CallGetScoresByLwinOf(S) ==
  /\ pc = "idle"
  /\ \E l \in LwinArgs, o \in S :
      Derived("getScoresByLwin", l, o, getScoresByLwin(l, o))
  /\ UNCHANGED cli

CallGetScoresByLwin == CallGetScoresByLwinOf(Objects)

CallGetTopRatedOf(S) ==
  /\ pc = "idle"
  /\ \E o \in S : Derived("getTopRated", Undefined, o, getTopRated(o))
  /\ UNCHANGED cli

CallGetTopRated == CallGetTopRatedOf(Objects)

\* The awaited GET settles: request() returns response.data, or its catch
\* block throws the classified error.
SettleOf(S) ==
  /\ pc = "waiting"
  /\ \E o \in S :
       /\ outcome' = o
       /\ IF AxiosResolves(o)
          THEN /\ result' = Returned(o.data)
               /\ pc' = "done"
               /\ UNCHANGED calls
          ELSE IF Retries(AxiosError(o))
          THEN /\ calls' = calls + 1
               /\ UNCHANGED <<pc, result>>
          ELSE /\ result' = requestCatch(AxiosError(o))
               /\ pc' = "done"
               /\ UNCHANGED calls
  /\ UNCHANGED <<apiToken, op, arg, options, filters, req, cli, prev>>

Settle == SettleOf(Outcomes)

\* The caller (a program using api.js directly) has the result; its next
\* query starts from scratch.
Handback ==
  /\ pc = "done"
  /\ cmd = NoCmd
  /\ pc' = "idle"
  /\ op' = "none"
  /\ arg' = Undefined
  /\ options' = EmptyObject
  /\ filters' = EmptyObject
  /\ req' = NoRequest
  /\ calls' = 0
  /\ outcome' = NoOutcome
  /\ result' = NoResult
  /\ UNCHANGED <<apiToken, cli>>

Finish == Handback /\ UNCHANGED prev

(***************************************************************************)
(* The command-line layer: one process per command                         *)
(***************************************************************************)
\* isConfigured(): whether the credential store holds a token
isConfigured == Truthy(getConfig)

\* parseInt(options.limit)
parseInt(s) ==
  CASE s.v = <<"20">> -> Num("20")
    [] s.v = <<"30">> -> Num("30")
    [] s.v = <<"0">>  -> Num("0")
    [] OTHER          -> Num("NaN")

\* What the user may type after --limit.
LimitTexts == {Str(<<"20">>), Str(<<"0">>), Str(<<"abc">>)}

\* The value commander stores for each flag when the user gives it.
CliValue(k) ==
  CASE k = "wineId"   -> Str(<<"113434">>)
    [] k = "vintage"  -> Str(<<"2015">>)
    [] k = "color"    -> Str(<<"W", "h", "i", "t", "e">>)
    [] k = "lwin"     -> Str(<<"1014033">>)
    [] k = "lwin11"   -> Str(<<"10140332015">>)
    [] k = "primeurs" -> Bool("true")
    [] k = "ordering" -> Str(<<"date">>)
    [] k = "json"     -> Bool("true")

\* The options object of a command taking the given flags: at most MaxKeys
\* of them given; limit has a default, so it is always there.
FlagOptions(flags) ==
  {[k \in ks |-> CliValue(k)] :
     ks \in {x \in SUBSET flags : Cardinality(x) <= MaxKeys}}

CliOptions(flags) ==
  {Spread(o, [limit |-> l]) : o \in FlagOptions(flags), l \in LimitTexts}

\* if (options.flag) filters.key = options.flag
SetIf(f, key, v) == IF Truthy(v) THEN Spread(f, [k \in {key} |-> v]) ELSE f

latestFilters(o) ==
  LET f0 == [limit |-> parseInt(o["limit"])]
      f1 == SetIf(f0, "wine_id", Get(o, "wineId"))
      f2 == SetIf(f1, "vintage", Get(o, "vintage"))
      f3 == SetIf(f2, "color", Get(o, "color"))
      f4 == SetIf(f3, "lwin", Get(o, "lwin"))
      f5 == SetIf(f4, "lwin_11", Get(o, "lwin11"))
      f6 == IF Truthy(Get(o, "primeurs"))
            THEN Spread(f5, [is_primeurs |-> Bool("true")]) ELSE f5
  IN  SetIf(f6, "ordering", Get(o, "ordering"))

vintageFilters(o) ==
  SetIf([limit |-> parseInt(o["limit"]), ordering |-> DescScore],
        "color", Get(o, "color"))

colorFilters(o) ==
  SetIf([limit |-> parseInt(o["limit"]), ordering |-> DescScore],
        "vintage", Get(o, "vintage"))

topFilters(o) ==
  SetIf(SetIf([limit |-> parseInt(o["limit"])], "color", Get(o, "color")),
        "vintage", Get(o, "vintage"))

historicalFilters(o) ==
  SetIf(SetIf([limit |-> parseInt(o["limit"])], "wine_id", Get(o, "wineId")),
        "vintage", Get(o, "vintage"))

validColors == {<<"r", "e", "d">>, <<"w", "h", "i", "t", "e">>,
                <<"p", "i", "n", "k">>}

\* What the user may type as <type> of the color command.
TypeArgs == {Str(<<"r", "e", "d">>), Str(<<"R", "E", "D">>),
             Str(<<"b", "l", "u", "e">>)}

NotConfiguredText == <<"API token not configured.">>
InvalidColorText == <<"Invalid color. Must be one of: red, white, pink">>

\* printError(message); process.exit(1) before any API function is called
ExitEarly(message) ==
  /\ pc' = "exited"
  /\ exitCode' = "1"
  /\ stderr' = Append(stderr, message)
  /\ UNCHANGED <<apiToken, op, arg, options, filters, req, calls, outcome,
                 result, stdout, prev>>

\* A command action up to its await: requireAuth() first, then the call.
Command(name, o, call) ==
  /\ pc = "idle"
  /\ cmd' = [name |-> name, json |-> Truthy(Get(o, "json"))]
  /\ IF ~isConfigured
     THEN ExitEarly(NotConfiguredText)
     ELSE call /\ UNCHANGED <<exitCode, stderr, stdout>>

CmdLatest ==
  \E o \in CliOptions({"wineId", "vintage", "color", "lwin", "lwin11",
                       "primeurs", "ordering", "json"}) :
    Command("latest", o,
            Invoke("getLatestScores", Undefined, latestFilters(o),
                   latestFilters(o), LatestEndpoint,
                   getLatestScores(latestFilters(o))))

CmdVintage ==
  \E y \in VintageArgs, o \in CliOptions({"color", "json"}) :
    Command("vintage", o,
            Derived("getScoresByVintage", y, vintageFilters(o),
                    getScoresByVintage(y, vintageFilters(o))))

CmdColor ==
  \E t \in TypeArgs, o \in CliOptions({"vintage", "json"}) :
    Command("color", o,
            IF toLowerCase(t).v \notin validColors
            THEN ExitEarly(InvalidColorText)
            ELSE Derived("getScoresByColor", t, colorFilters(o),
                         getScoresByColor(t, colorFilters(o))))

CmdTop ==
  \E o \in CliOptions({"color", "vintage", "json"}) :
    Command("top", o,
            Derived("getTopRated", Undefined, topFilters(o),
                    getTopRated(topFilters(o))))

CmdWine ==
  \E w \in WineIdArgs, o \in FlagOptions({"json"}) :
    Command("wine", o,
            Derived("getScoresByWineId", w, EmptyObject,
                    getScoresByWineId(w, EmptyObject)))

CmdLwin ==
  \E l \in LwinArgs, o \in FlagOptions({"json"}) :
    Command("lwin", o,
            Derived("getScoresByLwin", l, EmptyObject,
                    getScoresByLwin(l, EmptyObject)))

CmdHistorical ==
  \E o \in CliOptions({"wineId", "vintage", "json"}) :
    Command("historical", o,
            Invoke("getHistoricalScores", Undefined, historicalFilters(o),
                   historicalFilters(o), HistoricalEndpoint,
                   getHistoricalScores(historicalFilters(o))))

\* Variant of the commands' catch block that reports the error and lets the
\* process end normally.
commandCatchNoExit(error) ==
  [stderr |-> <<error.message>>, exitCode |-> "0"]

\* catch (error) { printError(error.message); process.exit(1); }
commandCatch(error) ==
  [stderr |-> <<error.message>>, exitCode |-> "1"]

\* data.results || []
ResultsOf(data) ==
  IF "results" \in DOMAIN data.fields THEN data.fields["results"].v ELSE <<>>

\* printJson(data), or printTable(results.map(formatWineResult), ...)
Printed(json, data) ==
  IF json
  THEN [kind |-> "json", data |-> data, rows |-> <<>>]
  ELSE [kind |-> "table", data |-> NoData,
        rows |-> [i \in DOMAIN ResultsOf(data) |->
                    formatWineResult(ResultsOf(data)[i])]]

\* The rest of a command action, after its await: print the results and
\* end, or report the error and exit with status 1.
CmdComplete ==
  /\ pc = "done"
  /\ cmd # NoCmd
  /\ pc' = "exited"
  /\ IF result.kind = "thrown"
     THEN /\ stderr' = stderr \o commandCatch(result).stderr
          /\ exitCode' = commandCatch(result).exitCode
          /\ UNCHANGED stdout
     ELSE /\ stdout' = Printed(cmd.json, result.data)
          /\ exitCode' = "0"
          /\ UNCHANGED stderr
  /\ UNCHANGED <<apiToken, op, arg, options, filters, req, calls, outcome,
                 result, cmd, prev>>

\* What the user may type after --api-token.
TokenArgs == {Str(<<>>), Str(<<"s3cr3t">>)}

\* config set --api-token <token>, run as a process of its own
ConfigSetOf(S) ==
  /\ pc = "idle"
  /\ \E t \in S :
       IF Truthy(t) THEN apiToken' = t ELSE UNCHANGED apiToken
  /\ UNCHANGED <<pc, op, arg, options, filters, req, calls, outcome, result,
                 cli, prev>>

ConfigSet == ConfigSetOf(TokenArgs)

Next ==
  \/ CallGetLatestScores
  \/ CallGetHistoricalScores
  \/ CallSearchWines
  \/ CallGetScoresByVintage
  \/ CallGetScoresByColor
  \/ CallGetScoresByWineId
  \/ CallGetScoresByLwin
  \/ CallGetTopRated
  \/ Settle
  \/ Finish
  \/ CmdLatest
  \/ CmdVintage
  \/ CmdColor
  \/ CmdTop
  \/ CmdWine
  \/ CmdLwin
  \/ CmdHistorical
  \/ CmdComplete
  \/ ConfigSet

Spec == Init /\ [][Next]_vars

(***************************************************************************)
(* Sequences of queries with a memory of an earlier one: the same machine  *)
(* over fewer inputs, with a history variable that no action of the        *)
(* program reads.                                                          *)
(***************************************************************************)
FewObjects ==
  {EmptyObject,
   [offset |-> Num("40")],
   [limit |-> Num("10"), ordering |-> Str(<<"date">>)]}

FewOutcomes ==
  {Response(200, PageBody), Response(429, EmptyBody),
   Response(400, DetailBody), NetworkError("connect ECONNREFUSED")}

MoreTokenArgs == {Str(<<"s3cr3t">>), Str(<<"n3w">>)}

\* The query that has just settled: what went in and what came out.
Snapshot ==
  [set |-> TRUE, op |-> op, arg |-> arg, options |-> options,
   token |-> apiToken, req |-> req, calls |-> calls, outcome |-> outcome,
   result |-> result]

\* The caller takes the result; the history keeps this query or an older one.
Remember == Handback /\ prev' \in {prev, Snapshot}

NextHistory ==
  \/ CallGetLatestScoresOf(FewObjects)
  \/ CallGetHistoricalScoresOf(FewObjects)
  \/ CallSearchWinesOf(FewObjects)
  \/ CallGetScoresByVintageOf(FewObjects)
  \/ CallGetScoresByColorOf(FewObjects)
  \/ CallGetScoresByWineIdOf(FewObjects)
  \/ CallGetScoresByLwinOf(FewObjects)
  \/ CallGetTopRatedOf(FewObjects)
  \/ SettleOf(FewOutcomes)
  \/ Remember
  \/ ConfigSetOf(MoreTokenArgs)

SpecHistory == Init /\ [][NextHistory]_vars

(***************************************************************************)
(* Properties                                                              *)
(***************************************************************************)
\* A GET has been handed to the transport for the current query.
Issued == calls >= 1

\* The GET was answered with a non-2xx status.
Rejected == outcome.kind = "response" /\ ~AxiosResolves(outcome)

\* response.data.detail of the delivered outcome
OutcomeDetail == Get(outcome.data.fields, "detail")

Categories == {"Unauthenticated", "RateLimited", "PlanRestricted",
               "RemoteRejected", "TransportFailure"}

\* C1: in a latest / historical query each of the nine fields is among the
\* outgoing parameters exactly when the caller set it to something other
\* than undefined, and then with the caller's value (false, 0 and ''
\* included).
C1_ExactTransmission ==
  (op \in {"getLatestScores", "getHistoricalScores"} /\ Issued) =>
    \A k \in Fields :
      /\ (k \in DOMAIN req.params) <=> (Get(options, k) # Undefined)
      /\ (k \in DOMAIN req.params) => (req.params[k] = Get(options, k))

\* C2: every request of top-rated carries ordering=-score, whatever the
\* options say.
C2_TopRatedForcesOrdering ==
  (op = "getTopRated" /\ Issued) => Get(req.params, "ordering") = DescScore

\* C3: with no token (absent or empty) a query fails as Unauthenticated and
\* no GET is issued.
C3_NoTokenUnauthenticated ==
  (pc = "done" /\ ~Truthy(apiToken)) =>
    /\ result.kind = "thrown"
    /\ result.category = "Unauthenticated"
    /\ calls = 0

\* C4: the status decides before the body: 401 is Unauthenticated, 429 is
\* RateLimited and 403 is PlanRestricted with or without a detail in the
\* body, and RemoteRejected arises only for other statuses.
C4_StatusBeforeDetail ==
  (pc = "done" /\ Rejected) =>
    /\ (outcome.status = 401) => (result.category = "Unauthenticated")
    /\ (outcome.status = 429) => (result.category = "RateLimited")
    /\ (outcome.status = 403) => (result.category = "PlanRestricted")
    /\ (result.category = "RemoteRejected") =>
         (outcome.status \notin {401, 429, 403})

\* C4 witness: a 403 whose body carries a detail settled as PlanRestricted.
C4_Witness ==
  /\ pc = "done"
  /\ outcome.status = 403
  /\ Truthy(OutcomeDetail)
  /\ result.kind = "thrown"
  /\ result.category = "PlanRestricted"

C6_ExactlyOneGet ==
  /\ (pc \in {"waiting", "done"} /\ Truthy(apiToken)) => calls = 1
  /\ (pc = "waiting") => (outcome = NoOutcome)

\* C6 witness: a 429 settled as RateLimited after a single GET.
C6_Witness ==
  /\ pc = "done"
  /\ outcome.status = 429
  /\ result.category = "RateLimited"
  /\ calls = 1

\* C7: every failure that is not a 401, 429 or 403 and has no detail -- no
\* response, an unexpected status, or a body that is not a ScorePage -- is
\* a TransportFailure carrying the cause; a malformed body is never returned
\* as a success.
C7_MalformedIsTransportFailure ==
  (pc = "done" /\ Issued
     /\ ~(outcome.kind = "response" /\ outcome.status \in {401, 429, 403})
     /\ ~Truthy(OutcomeDetail)
     /\ (~AxiosResolves(outcome) \/ ~IsScorePage(outcome.data))) =>
    /\ result.kind = "thrown"
    /\ result.category = "TransportFailure"
    /\ \E i \in DOMAIN result.message :
         SubSeq(result.message, i, Len(result.message))
           = AxiosError(outcome).message

C9_DefaultsAndOverrides ==
  (op \in {"getScoresByVintage", "getScoresByColor"} /\ Issued) =>
    /\ Get(req.params, "limit") =
         (IF Get(options, "limit") # Undefined
          THEN options["limit"] ELSE Num("50"))
    /\ Get(req.params, "ordering") =
         (IF Get(options, "ordering") # Undefined
          THEN options["ordering"] ELSE DescScore)
    /\ \A k \in (DOMAIN options) \ {"limit", "ordering"} :
         (options[k] # Undefined) => (Get(req.params, k) = options[k])

\* C10 as stated: whatever by-color transmits as color is the lower-cased
\* form of its argument and has no upper-case letter.
C10_ColorAlwaysLowerCased ==
  (op = "getScoresByColor" /\ Issued /\ "color" \in DOMAIN req.params) =>
    /\ req.params["color"] = toLowerCase(arg)
    /\ ~HasUpperCase(req.params["color"])

\* C10 amended: when options carries no color key, the color transmitted is
\* the lower-cased argument (and a non-empty argument is transmitted); when
\* options carries a color key, that value takes the argument's place and
\* any color transmitted is that value, unchanged.
C10_ColorLowerCasedUnlessOverridden ==
  (op = "getScoresByColor" /\ Issued) =>
    IF "color" \in DOMAIN options
    THEN ("color" \in DOMAIN req.params) =>
           (req.params["color"] = options["color"])
    ELSE /\ Truthy(arg) => ("color" \in DOMAIN req.params)
         /\ ("color" \in DOMAIN req.params) =>
              /\ req.params["color"] = toLowerCase(arg)
              /\ ~HasUpperCase(req.params["color"])

\* C10 witness: by-color called with 'RED' and no color in options sends
\* color=red.
C10_Witness ==
  /\ op = "getScoresByColor"
  /\ Issued
  /\ arg = Str(<<"R", "E", "D">>)
  /\ "color" \notin DOMAIN options
  /\ Get(req.params, "color") = Str(<<"r", "e", "d">>)

\* C11: on a 2xx answer the query returns the body as it was delivered:
\* same count, next, previous, same results in the same order, no field of
\* any element added, dropped or defaulted.
C11_BodyReturnedVerbatim ==
  (pc = "done" /\ AxiosResolves(outcome)) =>
    /\ result.kind = "returned"
    /\ result.data = outcome.data

\* C11 witness: a page of two wines with missing and falsy fields came back
\* as sent.
C11_Witness ==
  /\ pc = "done"
  /\ outcome.status = 200
  /\ IsScorePage(outcome.data)
  /\ result.kind = "returned"
  /\ result.data.fields["results"].v = <<WineB, WineA>>

\* C12: reading the composed parameters back by the same field rules gives
\* every field the caller defined, with the caller's value.
C12_RoundTrip ==
  (op \in {"getLatestScores", "getHistoricalScores"} /\ Issued) =>
    LET back == BuildParams(req.params)
    IN  \A k \in DOMAIN options :
          (options[k] # Undefined) => (Get(back, k) = options[k])

\* C13: the operation alone fixes the URL -- the historical query goes to
\* /globalwinescores/, every other operation to /globalwinescores/latest/
\* -- and every request carries Authorization: Token <stored token>.
C13_RoutingAndAuthHeader ==
  Issued =>
    /\ req.url =
         (IF op = "getHistoricalScores"
          THEN <<"https://api.globalwinescore.com", "/globalwinescores/">>
          ELSE <<"https://api.globalwinescore.com", "/globalwinescores/latest/">>)
    /\ req.headers["Authorization"] = <<"Token ">> \o apiToken.v

\* C13 witness: a by-color query whose options carry filter fields went to
\* the latest resource.
C13_Witness ==
  /\ op = "getScoresByColor"
  /\ Issued
  /\ options # EmptyObject
  /\ req.url = <<"https://api.globalwinescore.com", "/globalwinescores/latest/">>
  /\ req.headers["Authorization"] = <<"Token ", "s3cr3t">>

C16_AuthFirstFailuresExitOne ==
  (cmd # NoCmd) =>
    /\ (~Truthy(apiToken)) =>
         /\ pc = "exited"
         /\ exitCode = "1"
         /\ op = "none"
         /\ calls = 0
         /\ stdout = NoOutput
    /\ (pc = "exited" /\ result.kind = "thrown") =>
         /\ exitCode = "1"
         /\ stderr = <<result.message>>
         /\ stdout = NoOutput
    /\ (exitCode = "0") => (result.kind = "returned")

\* C16 witness: the historical command, answered 403, printed the
\* PlanRestricted message and exited with status 1.
C16_Witness ==
  /\ cmd.name = "historical"
  /\ pc = "exited"
  /\ outcome.status = 403
  /\ result.category = "PlanRestricted"
  /\ stderr = <<result.message>>
  /\ exitCode = "1"

=============================================================================
